---- MODULE Spec2Model ----
(***************************************************************************)
(* Ingestion pipeline of grimoire-oracle-web (scripts/ingest.ts):          *)
(*   loadDocs -> splitDocsIntoChunks -> mergeSmallChunks ->                *)
(*   enrichChunksWithMetadata -> empty guard -> createVectorIndex          *)
(* Strings are sequences of one-character strings, so that length,         *)
(* concatenation, slicing and matching are computed as the code does.      *)
(***************************************************************************)
EXTENDS Integers, Sequences, FiniteSets, TLC

(* ---------------------------------------------------------------------- *)
(* Bounds of the model                                                     *)
(* ---------------------------------------------------------------------- *)
MaxChunks == 3
MaxRuns == 2
MaxDirs == 2
MaxTurns == 2
MaxDeltas == 2
MaxInput == 5

(* ---------------------------------------------------------------------- *)
(* Program constants                                                       *)
(* ---------------------------------------------------------------------- *)
MIN_CHUNK_SIZE == 100

\* the separator "\n\n" inserted between merged chunks
MergeSeparator == <<"\n", "\n">>

(* ---------------------------------------------------------------------- *)
(* String helpers (JavaScript String operations on character sequences)    *)
(* ---------------------------------------------------------------------- *)
Rep(c, n) == [i \in 1..n |-> c]

\* s.slice(from) with a 0-based index
SliceFrom(s, from) == SubSeq(s, from + 1, Len(s))

\* does pattern p occur in s at 0-based offset k
OccursAt(s, p, k) ==
    /\ k >= 0
    /\ k + Len(p) <= Len(s)
    /\ SubSeq(s, k + 1, k + Len(p)) = p

\* s.lastIndexOf(p): greatest 0-based offset of an occurrence, -1 if none
LastIndexOf(s, p) ==
    LET occ == {k \in 0..Len(s) : OccursAt(s, p, k)}
    IN  IF occ = {} THEN -1 ELSE CHOOSE k \in occ : \A j \in occ : j <= k

\* s.indexOf(p): least 0-based offset of an occurrence, -1 if none
IndexOf(s, p) ==
    LET occ == {k \in 0..Len(s) : OccursAt(s, p, k)}
    IN  IF occ = {} THEN -1 ELSE CHOOSE k \in occ : \A j \in occ : k <= j

\* s.endsWith(p)
EndsWith(s, p) == OccursAt(s, p, Len(s) - Len(p))

RECURSIVE SplitOn(_, _)
\* s.split(d) for a one-character delimiter d
SplitOn(s, d) ==
    LET hits == {k \in 1..Len(s) : s[k] = d}
    IN  IF hits = {} THEN <<s>>
        ELSE LET k == CHOOSE h \in hits : \A j \in hits : h <= j
             IN  <<SubSeq(s, 1, k - 1)>> \o SplitOn(SubSeq(s, k + 1, Len(s)), d)

RECURSIVE JoinWith(_, _)
\* parts.join(sep)
JoinWith(parts, sep) ==
    IF Len(parts) = 0 THEN <<>>
    ELSE IF Len(parts) = 1 THEN parts[1]
    ELSE parts[1] \o sep \o JoinWith(Tail(parts), sep)

RECURSIVE Concat(_)
Concat(parts) ==
    IF Len(parts) = 0 THEN <<>> ELSE parts[1] \o Concat(Tail(parts))

RECURSIVE FilterSeq(_, _)
\* parts.filter((s) => s !== drop)
FilterSeq(parts, drop) ==
    IF Len(parts) = 0 THEN <<>>
    ELSE (IF parts[1] = drop THEN <<>> ELSE <<parts[1]>>)
         \o FilterSeq(Tail(parts), drop)

SeqIncludes(parts, x) == \E i \in 1..Len(parts) : parts[i] = x

Digits == {"0", "1", "2", "3", "4", "5", "6", "7", "8", "9"}
LowerLetters == {"a", "b", "c", "d", "e", "f", "g", "h", "i", "j", "k", "l",
                 "m", "n", "o", "p", "q", "r", "s", "t", "u", "v", "w", "x",
                 "y", "z"}
Whitespace == {" ", "\t", "\n", "\r"}

(* ---------------------------------------------------------------------- *)
(* extractTitleFromPath                                                    *)
(* ---------------------------------------------------------------------- *)
VaultMarker == <<"v", "a", "u", "l", "t", "/">>
MdExtension == <<".", "m", "d">>
ClassesSegment == <<"C", "l", "a", "s", "s", "e", "s">>
CharacterClassesSegment == <<"C", "h", "a", "r", "a", "c", "t", "e", "r", " ", "C", "l", "a", "s", "s", "e", "s">>
RulesSegment == <<"r", "u", "l", "e", "s">>
ClassSuffix == <<" ", "C", "l", "a", "s", "s">>
BreadcrumbSeparator == <<" ", ">", " ">>

\* relativePath: the text after the last "vault/", or the whole path
RelativePath(filepath) ==
    LET vaultIndex == LastIndexOf(filepath, VaultMarker)
    IN  IF vaultIndex # -1
        THEN SliceFrom(filepath, vaultIndex + Len(VaultMarker))
        ELSE filepath

\* .replace(/\.md$/, "")
StripMdExtension(s) ==
    IF EndsWith(s, MdExtension) THEN SubSeq(s, 1, Len(s) - Len(MdExtension))
    ELSE s

\* length of the longest prefix of s whose characters are all in set
PrefixRun(s, set) ==
    LET stops == {k \in 1..Len(s) : s[k] \notin set}
    IN  IF stops = {} THEN Len(s)
        ELSE (CHOOSE k \in stops : \A j \in stops : k <= j) - 1

\* variant: the pattern is /^\d+[\.\-]\s*/, without the optional letter
StripOrderingPrefixNoLetter(segment) ==
    LET d == PrefixRun(segment, Digits)
        afterDigits == SubSeq(segment, d + 1, Len(segment))
        matches == /\ d >= 1
                   /\ Len(afterDigits) > 0
                   /\ afterDigits[1] \in {".", "-"}
        afterPunct == SubSeq(afterDigits, 2, Len(afterDigits))
        w == PrefixRun(afterPunct, Whitespace)
    IN  IF matches THEN SubSeq(afterPunct, w + 1, Len(afterPunct))
        ELSE segment

\* segment.replace(/^\d+[a-z]?[\.\-]\s*/, "")
StripOrderingPrefix(segment) ==
    LET d == PrefixRun(segment, Digits)
        afterDigits == SubSeq(segment, d + 1, Len(segment))
        l == IF Len(afterDigits) > 0 /\ afterDigits[1] \in LowerLetters
             THEN 1 ELSE 0
        afterLetter == SubSeq(afterDigits, l + 1, Len(afterDigits))
        matches == /\ d >= 1
                   /\ Len(afterLetter) > 0
                   /\ afterLetter[1] \in {".", "-"}
        afterPunct == SubSeq(afterLetter, 2, Len(afterLetter))
        w == PrefixRun(afterPunct, Whitespace)
    IN  IF matches THEN SubSeq(afterPunct, w + 1, Len(afterPunct))
        ELSE segment

\* const segments = relativePath.replace(...).split("/").map(...)
SegmentsOf(relativePath) ==
    LET raw == SplitOn(StripMdExtension(relativePath), "/")
    IN  [i \in 1..Len(raw) |-> StripOrderingPrefix(raw[i])]

PathSegments(filepath) == SegmentsOf(RelativePath(filepath))

\* variant: the generic "Character Classes" file is not skipped
TitleOfSegmentsNoPlaceholder(segments) ==
    LET className == segments[Len(segments)]
    IN  IF /\ SeqIncludes(segments, ClassesSegment)
           /\ Len(segments) >= 2
        THEN className \o ClassSuffix
        ELSE JoinWith(FilterSeq(segments, RulesSegment), BreadcrumbSeparator)

\* variant: only a leading "rules" segment is skipped
TitleOfSegmentsLeadingRules(segments) ==
    LET className == segments[Len(segments)]
    IN  IF /\ SeqIncludes(segments, ClassesSegment)
           /\ Len(segments) >= 2
           /\ className # CharacterClassesSegment
        THEN className \o ClassSuffix
        ELSE JoinWith(IF Len(segments) > 0 /\ segments[1] = RulesSegment
                      THEN Tail(segments) ELSE segments,
                      BreadcrumbSeparator)

\* the value returned for the segment list (the class case, else the
\* breadcrumb)
TitleOfSegments(segments) ==
    LET className == segments[Len(segments)]
    IN  IF /\ SeqIncludes(segments, ClassesSegment)
           /\ Len(segments) >= 2
           /\ className # CharacterClassesSegment
        THEN className \o ClassSuffix
        ELSE JoinWith(FilterSeq(segments, RulesSegment), BreadcrumbSeparator)

extractTitleFromPath(filepath) == TitleOfSegments(PathSegments(filepath))

ThiefPath == <<"v", "a", "u", "l", "t", "/", "C", "l", "a", "s", "s", "e", "s", "/", "0", "2", ".", " ", "T", "h", "i", "e", "f", ".", "m", "d">>

InitiativePath ==
    <<"v", "a", "u", "l", "t", "/", "r", "u", "l", "e", "s", "/", "C", "o", "m", "b", "a", "t", "/", "I", "n", "i", "t", "i", "a", "t", "i", "v", "e", ".", "m", "d">>


(* ---------------------------------------------------------------------- *)
(* Chunks: Document<Record<string, unknown>>                               *)
(*   pageContent : string                                                  *)
(*   metadata    : { source, loc }  (source set by the loader, loc by the  *)
(*                 splitter; loc is the position of the fragment)          *)
(* ---------------------------------------------------------------------- *)
Chunk(content, source, loc) ==
    [pageContent |-> content, metadata |-> [source |-> source, loc |-> loc]]

\* variant: the size test is <= instead of <
isUndersizedInclusive(chunk) == Len(chunk.pageContent) <= MIN_CHUNK_SIZE

\* pageContent.length < MIN_CHUNK_SIZE
isUndersized(chunk) == Len(chunk.pageContent) < MIN_CHUNK_SIZE

\* variant: the source comparison is left out
sameSourceAlways(pending, current) == TRUE

\* variant: the source comparison never succeeds
sameSourceNever(pending, current) == FALSE

\* acc.pending.metadata.source === current.metadata.source
sameSource(pending, current) ==
    pending.metadata.source = current.metadata.source

\* variant: the contents are concatenated without the separator
combineNoSeparator(pending, current) ==
    [pageContent |-> pending.pageContent \o current.pageContent,
     metadata |-> pending.metadata]

\* variant: the combined chunk takes the metadata of the current chunk
combineCurrentMetadata(pending, current) ==
    [pageContent |-> pending.pageContent \o MergeSeparator \o current.pageContent,
     metadata |-> current.metadata]

\* the combined chunk built when pending and current share a source
combine(pending, current) ==
    [pageContent |-> pending.pageContent \o MergeSeparator \o current.pageContent,
     metadata |-> pending.metadata]

\* the accumulator of the reduce: pending is <<>> (null) or <<chunk>>
InitialAcc == [merged |-> <<>>, pending |-> <<>>]

\* variant: a combined chunk is emitted at once, its size is not re-checked
mergeReducerOnce(acc, current) ==
    IF acc.pending = <<>>
    THEN IF isUndersized(current)
         THEN [merged |-> acc.merged, pending |-> <<current>>]
         ELSE [merged |-> Append(acc.merged, current), pending |-> <<>>]
    ELSE IF sameSource(acc.pending[1], current)
         THEN [merged |-> Append(acc.merged, combine(acc.pending[1], current)),
               pending |-> <<>>]
         ELSE LET flushed == Append(acc.merged, acc.pending[1])
              IN  IF isUndersized(current)
                  THEN [merged |-> flushed, pending |-> <<current>>]
                  ELSE [merged |-> Append(flushed, current), pending |-> <<>>]

\* variant: after a flush the current chunk is emitted without the size test
mergeReducerFlushEmits(acc, current) ==
    IF acc.pending = <<>>
    THEN IF isUndersized(current)
         THEN [merged |-> acc.merged, pending |-> <<current>>]
         ELSE [merged |-> Append(acc.merged, current), pending |-> <<>>]
    ELSE IF sameSource(acc.pending[1], current)
         THEN LET combined == combine(acc.pending[1], current)
              IN  IF isUndersized(combined)
                  THEN [merged |-> acc.merged, pending |-> <<combined>>]
                  ELSE [merged |-> Append(acc.merged, combined),
                        pending |-> <<>>]
         ELSE [merged |-> Append(Append(acc.merged, acc.pending[1]), current),
               pending |-> <<>>]

\* variant: on a change of source the pending chunk is not flushed
mergeReducerFlushDrops(acc, current) ==
    IF acc.pending = <<>>
    THEN IF isUndersized(current)
         THEN [merged |-> acc.merged, pending |-> <<current>>]
         ELSE [merged |-> Append(acc.merged, current), pending |-> <<>>]
    ELSE IF sameSource(acc.pending[1], current)
         THEN LET combined == combine(acc.pending[1], current)
              IN  IF isUndersized(combined)
                  THEN [merged |-> acc.merged, pending |-> <<combined>>]
                  ELSE [merged |-> Append(acc.merged, combined),
                        pending |-> <<>>]
         ELSE IF isUndersized(current)
              THEN [merged |-> acc.merged, pending |-> <<current>>]
              ELSE [merged |-> Append(acc.merged, current), pending |-> <<>>]

\* the callback passed to chunks.reduce
mergeReducer(acc, current) ==
    IF acc.pending = <<>>
    THEN IF isUndersized(current)
         THEN [merged |-> acc.merged, pending |-> <<current>>]
         ELSE [merged |-> Append(acc.merged, current), pending |-> <<>>]
    ELSE IF sameSource(acc.pending[1], current)
         THEN LET combined == combine(acc.pending[1], current)
              IN  IF isUndersized(combined)
                  THEN [merged |-> acc.merged, pending |-> <<combined>>]
                  ELSE [merged |-> Append(acc.merged, combined),
                        pending |-> <<>>]
         ELSE LET flushed == Append(acc.merged, acc.pending[1])
              IN  IF isUndersized(current)
                  THEN [merged |-> flushed, pending |-> <<current>>]
                  ELSE [merged |-> Append(flushed, current), pending |-> <<>>]

\* variant: the pending chunk left after the loop is not appended
mergeResultDropsPending(acc) == acc.merged

\* variant: the pending chunk left after the loop is put first
mergeResultPendingFirst(acc) ==
    IF acc.pending # <<>> THEN <<acc.pending[1]>> \o acc.merged
    ELSE acc.merged

\* const result = pending ? [...merged, pending] : merged
mergeResult(acc) ==
    IF acc.pending # <<>> THEN Append(acc.merged, acc.pending[1])
    ELSE acc.merged

RECURSIVE ReduceFrom(_, _, _)
\* chunks.reduce(mergeReducer, acc) over chunks[i..]
ReduceFrom(chunks, i, acc) ==
    IF i > Len(chunks) THEN acc
    ELSE ReduceFrom(chunks, i + 1, mergeReducer(acc, chunks[i]))

mergeSmallChunks(chunks) == mergeResult(ReduceFrom(chunks, 1, InitialAcc))

(* ---------------------------------------------------------------------- *)
(* mergeSmallChunks, single-lookahead variant                              *)
(* ---------------------------------------------------------------------- *)
\* { merged: [], skipNext: false }
InitialLookaheadAcc == [merged |-> <<>>, skipNext |-> FALSE]

\* variant: the chunk after a merged pair is not skipped
lookaheadReducerNoSkip(acc, current, index, chunks) ==
    LET hasNext == index + 1 <= Len(chunks)
        shouldMerge ==
            /\ Len(current.pageContent) < MIN_CHUNK_SIZE
            /\ hasNext
            /\ current.metadata.source = chunks[index + 1].metadata.source
    IN  IF shouldMerge
        THEN [merged |-> Append(acc.merged,
                  [pageContent |-> current.pageContent \o MergeSeparator
                                   \o chunks[index + 1].pageContent,
                   metadata |-> current.metadata]),
              skipNext |-> TRUE]
        ELSE [merged |-> Append(acc.merged, current), skipNext |-> FALSE]

\* the callback passed to chunks.reduce; index counts from 1, so the next
\* chunk is undefined when index = Len(chunks)
lookaheadReducer(acc, current, index, chunks) ==
    IF acc.skipNext
    THEN [merged |-> acc.merged, skipNext |-> FALSE]
    ELSE LET hasNext == index + 1 <= Len(chunks)
             shouldMerge ==
                 /\ Len(current.pageContent) < MIN_CHUNK_SIZE
                 /\ hasNext
                 /\ current.metadata.source
                        = chunks[index + 1].metadata.source
         IN  IF shouldMerge
             THEN [merged |-> Append(acc.merged,
                       [pageContent |-> current.pageContent \o MergeSeparator
                                        \o chunks[index + 1].pageContent,
                        metadata |-> current.metadata]),
                   skipNext |-> TRUE]
             ELSE [merged |-> Append(acc.merged, current),
                   skipNext |-> FALSE]

\* typeof chunk.metadata.source === "string" ? source : "unknown"
\* (every source of the model is a string)
filepathOf(chunk) == chunk.metadata.source

\* variant: the title is prefixed without the newline
enrichChunkNoNewline(chunk) ==
    [chunk EXCEPT !.pageContent =
        <<"[">> \o extractTitleFromPath(filepathOf(chunk)) \o <<"]">>
        \o chunk.pageContent]

enrichChunk(chunk) ==
    [chunk EXCEPT !.pageContent =
        <<"[">> \o extractTitleFromPath(filepathOf(chunk)) \o <<"]", "\n">>
        \o chunk.pageContent]

enrichChunksWithMetadata(chunks) ==
    [i \in 1..Len(chunks) |-> enrichChunk(chunks[i])]

(* ---------------------------------------------------------------------- *)
(* The documents table (supabase/schema.sql) and the rows written by       *)
(* SupabaseVectorStore.fromDocuments; the embedding column is a function   *)
(* of content and is left out                                              *)
(* ---------------------------------------------------------------------- *)
NullHash == <<>>

\* the row inserted for the k-th chunk when the serial stands at firstId
RowOf(chunk, id) ==
    [id |-> id, content |-> chunk.pageContent, metadata |-> chunk.metadata,
     content_hash |-> NullHash]

RowsOf(chunks, firstId) ==
    {RowOf(chunks[k], firstId + k - 1) : k \in 1..Len(chunks)}

\* variant: the filter is .eq("id", 0), which matches no row
RowsAfterClearEq(rows) == {r \in rows : ~(r.id = 0)}

\* .delete().neq("id", 0): the rows that survive are those with id = 0
RowsAfterClear(rows) == {r \in rows : ~(r.id # 0)}

(* ---------------------------------------------------------------------- *)
(* Inputs: what the splitter yields for the vault                          *)
(* ---------------------------------------------------------------------- *)
Sources == {ThiefPath, InitiativePath}
FragmentLengths == {40, 58, 100, 200}
FragmentFill == <<"a", "b", "c", "d", "e">>

\* chunks of one document are contiguous: a source never resumes
Grouped(srcs) ==
    \A i, j, k \in 1..Len(srcs) :
        (i < j /\ j < k /\ srcs[i] = srcs[k]) => srcs[j] = srcs[i]

Corpora ==
    UNION {
        {[i \in 1..n |-> Chunk(Rep(FragmentFill[i], lens[i]), srcs[i], i)] :
            lens \in [1..n -> FragmentLengths],
            srcs \in {f \in [1..n -> Sources] : Grouped(f)}} :
        n \in 0..MaxChunks}

\* two invocations of the script (e.g. one local, one on CI)
Runners == {"first", "second"}

OldRow ==
    [id |-> 1, content |-> <<"o", "l", "d">>,
     metadata |-> [source |-> ThiefPath, loc |-> 1],
     content_hash |-> NullHash]

(* ---------------------------------------------------------------------- *)
(* Inputs of extractTitleFromPath: paths put together from a root, up to   *)
(* MaxDirs directories, a file name with or without an ordering prefix,    *)
(* and an extension. names are the segments the path was made of, without  *)
(* root, prefixes and extension. Of a root, names are the segments after   *)
(* its last "vault/" and beyond is the text after its last directory       *)
(* called vault.                                                           *)
(* ---------------------------------------------------------------------- *)
TitleRoots ==
    {[text |-> <<>>, names |-> <<>>, beyond |-> <<>>],
     [text |-> VaultMarker, names |-> <<>>, beyond |-> <<>>],
     [text |-> <<"/", "s", "r", "v", "/", "v", "a", "u", "l", "t", "/">>, names |-> <<>>, beyond |-> <<>>],
     [text |-> <<"d", "o", "c", "s", "/">>, names |-> <<<<"d", "o", "c", "s">>>>, beyond |-> <<"d", "o", "c", "s", "/">>],
     [text |-> <<"m", "y", "v", "a", "u", "l", "t", "/">>, names |-> <<>>, beyond |-> <<"m", "y", "v", "a", "u", "l", "t", "/">>]}

TitleDirs ==
    {[raw |-> ClassesSegment, name |-> ClassesSegment],
     [raw |-> RulesSegment, name |-> RulesSegment],
     [raw |-> <<"C", "o", "m", "b", "a", "t">>, name |-> <<"C", "o", "m", "b", "a", "t">>],
     [raw |-> <<"1", ".", " ", "C", "l", "a", "s", "s", "e", "s">>, name |-> ClassesSegment]}

\* ordering prefixes; spaced tells whether whitespace follows the "." or "-"
TitlePrefixes ==
    {[text |-> <<>>, spaced |-> TRUE],
     [text |-> <<"0", "2", ".", " ">>, spaced |-> TRUE],
     [text |-> <<"0", "2", "a", ".", " ">>, spaced |-> TRUE],
     [text |-> <<"3", "-">>, spaced |-> FALSE],
     [text |-> <<"7", ".">>, spaced |-> FALSE]}

\* file names; none of them starts with an ordering prefix
TitleNames ==
    {<<"T", "h", "i", "e", "f">>,
     CharacterClassesSegment,
     <<"I", "n", "i", "t", "i", "a", "t", "i", "v", "e">>,
     ClassesSegment,
     RulesSegment,
     <<"2", "0", "2", "4", " ", "n", "o", "t", "e", "s">>,
     <<"0", "2", "a", "b", ".", " ", "F", "o", "o">>}

TitleExtensions == {MdExtension, <<>>}

TitleSample(root, dirs, prefix, name, ext) ==
    [path |-> root.text
              \o JoinWith([i \in 1..Len(dirs) |-> dirs[i].raw]
                           \o <<prefix.text \o name>>, <<"/">>)
              \o ext,
     names |-> root.names \o [i \in 1..Len(dirs) |-> dirs[i].name] \o <<name>>,
     prefix |-> prefix,
     raw |-> prefix.text \o name,
     root |-> root,
     inner |-> JoinWith([i \in 1..Len(dirs) |-> dirs[i].raw]
                        \o <<prefix.text \o name>>, <<"/">>)
               \o ext]

TitleSamples ==
    UNION {
        {TitleSample(root, dirs, prefix, name, ext) :
            root \in TitleRoots, dirs \in [1..n -> TitleDirs],
            prefix \in TitlePrefixes, name \in TitleNames,
            ext \in TitleExtensions} :
        n \in 0..MaxDirs}

NoSample ==
    [path |-> <<>>, names |-> <<>>,
     prefix |-> [text |-> <<>>, spaced |-> TRUE], raw |-> <<>>,
     root |-> [text |-> <<>>, names |-> <<>>, beyond |-> <<>>],
     inner |-> <<>>]

(* ---------------------------------------------------------------------- *)
(* State                                                                   *)
(* ---------------------------------------------------------------------- *)
VARIABLES
    pc,             \* position of main
    run,            \* number of the current invocation of the script
    corpus,         \* the chunk sequence the splitter yields for ./vault/
    chunks,         \* const chunks (main)
    idx,            \* number of elements the reduce has consumed
    acc,            \* accumulator of the reduce
    mergedChunks,   \* const mergedChunks (main)
    enrichedChunks, \* const enrichedChunks (main)
    table,          \* rows of the documents table
    nextId,         \* the bigserial of documents.id
    storeCalls,     \* store operations performed by the current run
    error,          \* the error caught by main ("none" if nothing was thrown)
    exitCode,       \* -1 while running, else the exit code of the process
    tpc,            \* position of a call of extractTitleFromPath
    sample,         \* what the argument of the call was put together from
    filepath,       \* the argument of extractTitleFromPath
    relativePath,   \* const relativePath (extractTitleFromPath)
    segments,       \* const segments (extractTitleFromPath)
    title,          \* the value extractTitleFromPath returns
    lookaheadPc,    \* position of a call of the single-lookahead merge
    lookaheadIndex, \* number of chunks its reduce has visited
    lookaheadAcc,   \* the accumulator {merged, skipNext} of its reduce
    lookaheadMerged, \* the list it returns (result.merged)
    runnerPc,       \* position of each of two overlapping createVectorIndex calls
    runnerCalls,    \* the store operations of those calls, in the order performed
    page,           \* which Page is mounted: "useChat", "stub", or "off"
    status,         \* const status (Page)
    messages,       \* const messages (Page)
    value,          \* const value (ChatInput): the text of the textarea
    lastEvent,      \* the event or callback handled last
    submitCalls,    \* the calls of onSubmit: the argument and the isDisabled prop
    inFlight        \* requests (useChat) or timers (stub) not yet over

pipelineVars == <<pc, run, corpus, chunks, idx, acc, mergedChunks,
                  enrichedChunks, table, nextId, storeCalls, error, exitCode>>

titleVars == <<tpc, sample, filepath, relativePath, segments, title>>

lookaheadVars == <<lookaheadPc, lookaheadIndex, lookaheadAcc, lookaheadMerged>>

overlapVars == <<runnerPc, runnerCalls>>

chatVars == <<page, status, messages, value, lastEvent, submitCalls, inFlight>>

outsidePipeline == <<titleVars, lookaheadVars, overlapVars, chatVars>>
outsideTitle == <<pipelineVars, lookaheadVars, overlapVars, chatVars>>
outsideLookahead == <<pipelineVars, titleVars, overlapVars, chatVars>>
outsideOverlap == <<pc, run, corpus, chunks, idx, acc, mergedChunks,
                    enrichedChunks, storeCalls, error, exitCode, titleVars,
                    lookaheadVars, chatVars>>
outsideChat == <<pipelineVars, titleVars, lookaheadVars, overlapVars>>

vars == <<pipelineVars, titleVars, lookaheadVars, overlapVars, chatVars>>

locals == <<chunks, idx, acc, mergedChunks, enrichedChunks>>
store == <<table, nextId, storeCalls>>

NotExited == -1

Init ==
    /\ pc = "loadDocs"
    /\ run = 1
    /\ corpus \in Corpora
    /\ chunks = <<>>
    /\ idx = 0
    /\ acc = InitialAcc
    /\ mergedChunks = <<>>
    /\ enrichedChunks = <<>>
    /\ \/ table = {} /\ nextId = 1
       \/ table = {OldRow} /\ nextId = 2
    /\ storeCalls = <<>>
    /\ error = "none"
    /\ exitCode = NotExited
    /\ tpc = "off"
    /\ sample = NoSample
    /\ filepath = <<>>
    /\ relativePath = <<>>
    /\ segments = <<>>
    /\ title = <<>>
    /\ lookaheadPc = "off"
    /\ lookaheadIndex = 0
    /\ lookaheadAcc = InitialLookaheadAcc
    /\ lookaheadMerged = <<>>
    /\ runnerPc = [r \in Runners |-> "off"]
    /\ runnerCalls = <<>>
    /\ page = "off"
    /\ status = "ready"
    /\ messages = <<>>
    /\ value = <<>>
    /\ lastEvent = "none"
    /\ submitCalls = <<>>
    /\ inFlight = 0

(* ---------------------------------------------------------------------- *)
(* main                                                                    *)
(* ---------------------------------------------------------------------- *)
\* const docs = await loadDocs("./vault/")
LoadDocs ==
    /\ pc = "loadDocs"
    /\ pc' = "splitDocs"
    /\ UNCHANGED <<run, corpus, locals, store, error, exitCode>>
    /\ UNCHANGED outsidePipeline

\* loader.load() rejects (directory missing or unreadable)
LoadDocsFail ==
    /\ pc = "loadDocs"
    /\ pc' = "catch"
    /\ error' = "load"
    /\ UNCHANGED <<run, corpus, locals, store, exitCode>>
    /\ UNCHANGED outsidePipeline

\* const chunks = await splitDocsIntoChunks(docs)
SplitDocs ==
    /\ pc = "splitDocs"
    /\ chunks' = corpus
    /\ idx' = 0
    /\ acc' = InitialAcc
    /\ pc' = "merge"
    /\ UNCHANGED <<run, corpus, mergedChunks, enrichedChunks, store, error, exitCode>>
    /\ UNCHANGED outsidePipeline

\* splitter.splitDocuments rejects
SplitDocsFail ==
    /\ pc = "splitDocs"
    /\ pc' = "catch"
    /\ error' = "split"
    /\ UNCHANGED <<run, corpus, locals, store, exitCode>>
    /\ UNCHANGED outsidePipeline

\* one call of the reduce callback of mergeSmallChunks
MergeStep ==
    /\ pc = "merge"
    /\ idx < Len(chunks)
    /\ acc' = mergeReducer(acc, chunks[idx + 1])
    /\ idx' = idx + 1
    /\ UNCHANGED <<pc, run, corpus, chunks, mergedChunks, enrichedChunks,
                   store, error, exitCode>>
    /\ UNCHANGED outsidePipeline

\* the reduce is over: mergeSmallChunks returns result
MergeFinish ==
    /\ pc = "merge"
    /\ idx = Len(chunks)
    /\ mergedChunks' = mergeResult(acc)
    /\ pc' = "enrich"
    /\ UNCHANGED <<run, corpus, chunks, idx, acc, enrichedChunks, store,
                   error, exitCode>>
    /\ UNCHANGED outsidePipeline

\* const enrichedChunks = enrichChunksWithMetadata(mergedChunks)
Enrich ==
    /\ pc = "enrich"
    /\ enrichedChunks' = enrichChunksWithMetadata(mergedChunks)
    /\ pc' = "guard"
    /\ UNCHANGED <<run, corpus, chunks, idx, acc, mergedChunks, store,
                   error, exitCode>>
    /\ UNCHANGED outsidePipeline

\* variant: main without the empty-result guard
isEmptyResultUnguarded(enriched) == FALSE

\* enrichedChunks.length === 0
isEmptyResult(enriched) == Len(enriched) = 0

\* if (enrichedChunks.length === 0) throw
GuardThrow ==
    /\ pc = "guard"
    /\ isEmptyResult(enrichedChunks)
    /\ pc' = "catch"
    /\ error' = "empty"
    /\ UNCHANGED <<run, corpus, locals, store, exitCode>>
    /\ UNCHANGED outsidePipeline

\* the guard passes: createVectorIndex(enrichedChunks) is called
GuardPass ==
    /\ pc = "guard"
    /\ ~isEmptyResult(enrichedChunks)
    /\ pc' = "clear"
    /\ UNCHANGED <<run, corpus, locals, store, error, exitCode>>
    /\ UNCHANGED outsidePipeline

(* ---------------------------------------------------------------------- *)
(* createVectorIndex                                                       *)
(* ---------------------------------------------------------------------- *)
\* the delete succeeds
ClearOk ==
    /\ pc = "clear"
    /\ table' = RowsAfterClear(table)
    /\ storeCalls' = Append(storeCalls, [op |-> "delete", ok |-> TRUE])
    /\ pc' = "insert"
    /\ UNCHANGED <<run, corpus, locals, nextId, error, exitCode>>
    /\ UNCHANGED outsidePipeline

\* variant: the error of the delete is not looked at
ClearFailIgnored ==
    /\ pc = "clear"
    /\ storeCalls' = Append(storeCalls, [op |-> "delete", ok |-> FALSE])
    /\ pc' = "insert"
    /\ UNCHANGED <<run, corpus, locals, table, nextId, error, exitCode>>
    /\ UNCHANGED outsidePipeline

\* the delete returns an error: throw new Error("Failed to clear documents")
ClearFail ==
    /\ pc = "clear"
    /\ storeCalls' = Append(storeCalls, [op |-> "delete", ok |-> FALSE])
    /\ pc' = "catch"
    /\ error' = "clear"
    /\ UNCHANGED <<run, corpus, locals, table, nextId, exitCode>>
    /\ UNCHANGED outsidePipeline

\* SupabaseVectorStore.fromDocuments resolves; main returns, exit code 0
InsertOk ==
    /\ pc = "insert"
    /\ table' = table \cup RowsOf(enrichedChunks, nextId)
    /\ nextId' = nextId + Len(enrichedChunks)
    /\ storeCalls' = Append(storeCalls, [op |-> "insert", ok |-> TRUE])
    /\ pc' = "exited"
    /\ exitCode' = 0
    /\ UNCHANGED <<run, corpus, locals, error>>
    /\ UNCHANGED outsidePipeline

\* SupabaseVectorStore.fromDocuments rejects (embedding or insert failed)
InsertFail ==
    /\ pc = "insert"
    /\ storeCalls' = Append(storeCalls, [op |-> "insert", ok |-> FALSE])
    /\ pc' = "catch"
    /\ error' = "insert"
    /\ UNCHANGED <<run, corpus, locals, table, nextId, exitCode>>
    /\ UNCHANGED outsidePipeline

\* catch (error) { console.error(...); process.exit(1) }
MainCatch ==
    /\ pc = "catch"
    /\ pc' = "exited"
    /\ exitCode' = 1
    /\ UNCHANGED <<run, corpus, locals, store, error>>
    /\ UNCHANGED outsidePipeline

\* the script is invoked again (pnpm ingest) on the unchanged vault
Rerun ==
    /\ pc = "exited"
    /\ run < MaxRuns
    /\ run' = run + 1
    /\ pc' = "loadDocs"
    /\ chunks' = <<>>
    /\ idx' = 0
    /\ acc' = InitialAcc
    /\ mergedChunks' = <<>>
    /\ enrichedChunks' = <<>>
    /\ storeCalls' = <<>>
    /\ error' = "none"
    /\ exitCode' = NotExited
    /\ UNCHANGED <<corpus, table, nextId>>
    /\ UNCHANGED outsidePipeline

Next ==
    \/ LoadDocs
    \/ LoadDocsFail
    \/ SplitDocs
    \/ SplitDocsFail
    \/ MergeStep
    \/ MergeFinish
    \/ Enrich
    \/ GuardThrow
    \/ GuardPass
    \/ ClearOk
    \/ ClearFail
    \/ InsertOk
    \/ InsertFail
    \/ MainCatch
    \/ Rerun

Spec == Init /\ [][Next]_vars

(* ---------------------------------------------------------------------- *)
(* extractTitleFromPath called on its own                                  *)
(* ---------------------------------------------------------------------- *)
InitTitle ==
    /\ pc = "off"
    /\ run = 1
    /\ corpus = <<>>
    /\ chunks = <<>>
    /\ idx = 0
    /\ acc = InitialAcc
    /\ mergedChunks = <<>>
    /\ enrichedChunks = <<>>
    /\ table = {}
    /\ nextId = 1
    /\ storeCalls = <<>>
    /\ error = "none"
    /\ exitCode = NotExited
    /\ tpc = "call"
    /\ sample \in TitleSamples
    /\ filepath = sample.path
    /\ relativePath = <<>>
    /\ segments = <<>>
    /\ title = <<>>
    /\ lookaheadPc = "off"
    /\ lookaheadIndex = 0
    /\ lookaheadAcc = InitialLookaheadAcc
    /\ lookaheadMerged = <<>>
    /\ runnerPc = [r \in Runners |-> "off"]
    /\ runnerCalls = <<>>
    /\ page = "off"
    /\ status = "ready"
    /\ messages = <<>>
    /\ value = <<>>
    /\ lastEvent = "none"
    /\ submitCalls = <<>>
    /\ inFlight = 0

\* const relativePath = ...
TitleRelativePath ==
    /\ tpc = "call"
    /\ relativePath' = RelativePath(filepath)
    /\ tpc' = "segments"
    /\ UNCHANGED <<sample, filepath, segments, title, outsideTitle>>

\* const segments = ...
TitleSegments ==
    /\ tpc = "segments"
    /\ segments' = SegmentsOf(relativePath)
    /\ tpc' = "title"
    /\ UNCHANGED <<sample, filepath, relativePath, title, outsideTitle>>

\* return of the class title or of the breadcrumb
TitleReturn ==
    /\ tpc = "title"
    /\ title' = TitleOfSegments(segments)
    /\ tpc' = "returned"
    /\ UNCHANGED <<sample, filepath, relativePath, segments, outsideTitle>>

NextTitle ==
    \/ TitleRelativePath
    \/ TitleSegments
    \/ TitleReturn

SpecTitle == InitTitle /\ [][NextTitle]_vars

(* ---------------------------------------------------------------------- *)
(* The two versions of mergeSmallChunks called on the same chunks          *)
(* ---------------------------------------------------------------------- *)
InitVariants ==
    /\ pc = "merge"
    /\ run = 1
    /\ corpus \in Corpora
    /\ chunks = corpus
    /\ idx = 0
    /\ acc = InitialAcc
    /\ mergedChunks = <<>>
    /\ enrichedChunks = <<>>
    /\ table = {}
    /\ nextId = 1
    /\ storeCalls = <<>>
    /\ error = "none"
    /\ exitCode = NotExited
    /\ tpc = "off"
    /\ sample = NoSample
    /\ filepath = <<>>
    /\ relativePath = <<>>
    /\ segments = <<>>
    /\ title = <<>>
    /\ lookaheadPc = "reduce"
    /\ lookaheadIndex = 0
    /\ lookaheadAcc = InitialLookaheadAcc
    /\ lookaheadMerged = <<>>
    /\ runnerPc = [r \in Runners |-> "off"]
    /\ runnerCalls = <<>>
    /\ page = "off"
    /\ status = "ready"
    /\ messages = <<>>
    /\ value = <<>>
    /\ lastEvent = "none"
    /\ submitCalls = <<>>
    /\ inFlight = 0

\* one call of the reduce callback of the single-lookahead variant
LookaheadStep ==
    /\ lookaheadPc = "reduce"
    /\ lookaheadIndex < Len(chunks)
    /\ lookaheadAcc' = lookaheadReducer(lookaheadAcc, chunks[lookaheadIndex + 1],
                                        lookaheadIndex + 1, chunks)
    /\ lookaheadIndex' = lookaheadIndex + 1
    /\ UNCHANGED <<lookaheadPc, lookaheadMerged, outsideLookahead>>

\* return result.merged
LookaheadFinish ==
    /\ lookaheadPc = "reduce"
    /\ lookaheadIndex = Len(chunks)
    /\ lookaheadMerged' = lookaheadAcc.merged
    /\ lookaheadPc' = "returned"
    /\ UNCHANGED <<lookaheadIndex, lookaheadAcc, outsideLookahead>>

NextVariants ==
    \/ MergeStep
    \/ MergeFinish
    \/ LookaheadStep
    \/ LookaheadFinish

SpecVariants == InitVariants /\ [][NextVariants]_vars

(* ---------------------------------------------------------------------- *)
(* Two runs of the script on the same vault and the same table, both in    *)
(* createVectorIndex, both with store calls that succeed                   *)
(* ---------------------------------------------------------------------- *)
InitOverlap ==
    /\ pc = "off"
    /\ run = 1
    /\ corpus \in Corpora
    /\ chunks = corpus
    /\ idx = Len(chunks)
    /\ acc = ReduceFrom(chunks, 1, InitialAcc)
    /\ mergedChunks = mergeSmallChunks(chunks)
    /\ enrichedChunks = enrichChunksWithMetadata(mergedChunks)
    /\ ~isEmptyResult(enrichedChunks)
    /\ \/ table = {} /\ nextId = 1
       \/ table = {OldRow} /\ nextId = 2
    /\ storeCalls = <<>>
    /\ error = "none"
    /\ exitCode = NotExited
    /\ tpc = "off"
    /\ sample = NoSample
    /\ filepath = <<>>
    /\ relativePath = <<>>
    /\ segments = <<>>
    /\ title = <<>>
    /\ lookaheadPc = "off"
    /\ lookaheadIndex = 0
    /\ lookaheadAcc = InitialLookaheadAcc
    /\ lookaheadMerged = <<>>
    /\ runnerPc = [r \in Runners |-> "clear"]
    /\ runnerCalls = <<>>
    /\ page = "off"
    /\ status = "ready"
    /\ messages = <<>>
    /\ value = <<>>
    /\ lastEvent = "none"
    /\ submitCalls = <<>>
    /\ inFlight = 0

\* the delete of runner r
RunnerClear(r) ==
    /\ runnerPc[r] = "clear"
    /\ table' = RowsAfterClear(table)
    /\ runnerCalls' = Append(runnerCalls, [runner |-> r, op |-> "delete"])
    /\ runnerPc' = [runnerPc EXCEPT ![r] = "insert"]
    /\ UNCHANGED <<nextId, outsideOverlap>>

\* SupabaseVectorStore.fromDocuments of runner r
RunnerInsert(r) ==
    /\ runnerPc[r] = "insert"
    /\ table' = table \cup RowsOf(enrichedChunks, nextId)
    /\ nextId' = nextId + Len(enrichedChunks)
    /\ runnerCalls' = Append(runnerCalls, [runner |-> r, op |-> "insert"])
    /\ runnerPc' = [runnerPc EXCEPT ![r] = "done"]
    /\ UNCHANGED outsideOverlap

NextOverlap ==
    \/ \E r \in Runners : RunnerClear(r)
    \/ \E r \in Runners : RunnerInsert(r)

SpecOverlap == InitOverlap /\ [][NextOverlap]_vars

(* ---------------------------------------------------------------------- *)
(* The chat page: Page, ChatInput, MessageList, Message                    *)
(* ---------------------------------------------------------------------- *)
\* value.trim()
Trim(text) ==
    LET lead == PrefixRun(text, Whitespace)
        rest == SubSeq(text, lead + 1, Len(text))
        RECURSIVE tailRun(_)
        tailRun(n) == IF n > 0 /\ rest[n] \in Whitespace THEN tailRun(n - 1)
                      ELSE n
    IN  SubSeq(rest, 1, tailRun(Len(rest)))

TextPart(text) == [type |-> "text", text |-> text]

UserMessage(text) == [role |-> "user", parts |-> <<TextPart(text)>>]

AssistantMessage(text) == [role |-> "assistant", parts |-> <<TextPart(text)>>]

\* INITIAL_MESSAGES: the greeting of the oracle
INITIAL_MESSAGES == <<AssistantMessage(<<"G">>)>>

\* the "[Stub response] ..." text of the stub page
StubResponse == <<"S">>

\* msg.parts.filter((p) => p.type === "text").map((p) => p.text).join("")
MessageContent(msg) ==
    LET texts == SelectSeq(msg.parts, LAMBDA part : part.type = "text")
    IN  JoinWith([i \in 1..Len(texts) |-> texts[i].text], <<>>)

\* variant: the input is never disabled
isDisabledNever == FALSE

\* isDisabled={status !== 'ready'}
isDisabled == status # "ready"

\* disabled={isDisabled || !value.trim()} of the send button
sendButtonDisabled == isDisabled \/ Trim(value) = <<>>

\* variant: every assistant message gets the cursor while streaming
isStreamingAnyAssistant(i) ==
    /\ status = "streaming"
    /\ messages[i].role = "assistant"

\* the isStreaming prop MessageList passes to the i-th Message, which shows
\* the cursor when it is true; the stub page passes status === "streaming"
\* to the earlier MessageList, which amounts to the same
isStreaming(i) ==
    /\ status = "streaming"
    /\ i = Len(messages)
    /\ messages[i].role = "assistant"

\* status === "submitted" && messages.at(-1)?.role === "user" (the stub
\* page mounts the earlier MessageList, which has no placeholder)
showsPlaceholder ==
    /\ page = "useChat"
    /\ status = "submitted"
    /\ Len(messages) > 0
    /\ messages[Len(messages)].role = "user"

\* what the user may put into the textarea
InputTexts ==
    {<<>>, <<" ">>, <<"h", "i">>, <<" ", "h", "i", " ">>}

UserTurns == Len(SelectSeq(messages, LAMBDA msg : msg.role = "user"))

InitChat ==
    /\ pc = "off"
    /\ run = 1
    /\ corpus = <<>>
    /\ chunks = <<>>
    /\ idx = 0
    /\ acc = InitialAcc
    /\ mergedChunks = <<>>
    /\ enrichedChunks = <<>>
    /\ table = {}
    /\ nextId = 1
    /\ storeCalls = <<>>
    /\ error = "none"
    /\ exitCode = NotExited
    /\ tpc = "off"
    /\ sample = NoSample
    /\ filepath = <<>>
    /\ relativePath = <<>>
    /\ segments = <<>>
    /\ title = <<>>
    /\ lookaheadPc = "off"
    /\ lookaheadIndex = 0
    /\ lookaheadAcc = InitialLookaheadAcc
    /\ lookaheadMerged = <<>>
    /\ runnerPc = [r \in Runners |-> "off"]
    /\ runnerCalls = <<>>
    /\ page \in {"useChat", "stub"}
    /\ status = "ready"
    /\ messages = INITIAL_MESSAGES
    /\ value = <<>>
    /\ lastEvent = "none"
    /\ submitCalls = <<>>
    /\ inFlight = 0

\* variant: the text is handed on as typed
handleSubmitUntrimmed ==
    IF value = <<>> \/ isDisabled
    THEN UNCHANGED <<value, submitCalls, messages, status, inFlight>>
    ELSE /\ submitCalls' = Append(submitCalls,
                                  [text |-> value, isDisabled |-> isDisabled])
         /\ messages' = Append(messages, UserMessage(value))
         /\ status' = IF page = "stub" THEN "streaming" ELSE "submitted"
         /\ inFlight' = inFlight + 1
         /\ value' = <<>>

\* handleSubmit of ChatInput with onSubmit = handleSend of the mounted Page:
\* sendMessage of useChat appends the user message and sets "submitted";
\* the stub appends it, sets "streaming" and starts the timer
handleSubmit ==
    LET trimmed == Trim(value)
    IN  IF trimmed = <<>> \/ isDisabled
        THEN UNCHANGED <<value, submitCalls, messages, status, inFlight>>
        ELSE /\ submitCalls' = Append(submitCalls,
                                      [text |-> trimmed,
                                       isDisabled |-> isDisabled])
             /\ messages' = Append(messages, UserMessage(trimmed))
             /\ status' = IF page = "stub" THEN "streaming" ELSE "submitted"
             /\ inFlight' = inFlight + 1
             /\ value' = <<>>

\* handleChange: the textarea (enabled) reports a new text
HandleChange(text) ==
    /\ page # "off"
    /\ ~isDisabled
    /\ text # value
    /\ value' = text
    /\ lastEvent' = "change"
    /\ UNCHANGED <<page, status, messages, submitCalls, inFlight, outsideChat>>

\* handleKeyDown with Enter and no Shift
KeyEnter ==
    /\ page # "off"
    /\ ~isDisabled
    /\ UserTurns < MaxTurns
    /\ lastEvent' = "enter"
    /\ handleSubmit
    /\ UNCHANGED <<page, outsideChat>>

\* handleKeyDown with Shift+Enter: nothing is prevented, the textarea
\* inserts the newline and reports the new text to handleChange
KeyShiftEnter ==
    /\ page # "off"
    /\ ~isDisabled
    /\ Len(value) < MaxInput
    /\ value' = Append(value, "\n")
    /\ lastEvent' = "shiftEnter"
    /\ UNCHANGED <<page, status, messages, submitCalls, inFlight, outsideChat>>

\* onClick of the send button
ClickSend ==
    /\ page # "off"
    /\ ~sendButtonDisabled
    /\ UserTurns < MaxTurns
    /\ lastEvent' = "click"
    /\ handleSubmit
    /\ UNCHANGED <<page, outsideChat>>

\* setTimeout callback of the stub page
StubTimer ==
    /\ page = "stub"
    /\ inFlight > 0
    /\ messages' = Append(messages, AssistantMessage(StubResponse))
    /\ status' = "ready"
    /\ inFlight' = inFlight - 1
    /\ lastEvent' = "timer"
    /\ UNCHANGED <<page, value, submitCalls, outsideChat>>

\* useChat: the response starts to arrive
ResponseStart ==
    /\ page = "useChat"
    /\ status = "submitted"
    /\ messages' = Append(messages, AssistantMessage(<<>>))
    /\ status' = "streaming"
    /\ lastEvent' = "start"
    /\ UNCHANGED <<page, value, submitCalls, inFlight, outsideChat>>

\* useChat: more text of the response arrives
ResponseDelta ==
    /\ page = "useChat"
    /\ status = "streaming"
    /\ Len(MessageContent(messages[Len(messages)])) < MaxDeltas
    /\ messages' = [messages EXCEPT ![Len(messages)] =
           AssistantMessage(Append(MessageContent(messages[Len(messages)]), "."))]
    /\ lastEvent' = "delta"
    /\ UNCHANGED <<page, status, value, submitCalls, inFlight, outsideChat>>

\* useChat: the response is complete
ResponseFinish ==
    /\ page = "useChat"
    /\ status = "streaming"
    /\ status' = "ready"
    /\ inFlight' = inFlight - 1
    /\ lastEvent' = "finish"
    /\ UNCHANGED <<page, messages, value, submitCalls, outsideChat>>

\* useChat: the request fails
ResponseError ==
    /\ page = "useChat"
    /\ status \in {"submitted", "streaming"}
    /\ status' = "error"
    /\ inFlight' = inFlight - 1
    /\ lastEvent' = "error"
    /\ UNCHANGED <<page, messages, value, submitCalls, outsideChat>>

NextChat ==
    \/ \E text \in InputTexts : HandleChange(text)
    \/ KeyEnter
    \/ KeyShiftEnter
    \/ ClickSend
    \/ StubTimer
    \/ ResponseStart
    \/ ResponseDelta
    \/ ResponseFinish
    \/ ResponseError

SpecChat == InitChat /\ [][NextChat]_vars

\* the timer of the stub page, once set, fires
SpecChatLive == SpecChat /\ WF_vars(StubTimer)


(* ---------------------------------------------------------------------- *)
(* Vocabulary of the properties                                            *)
(* ---------------------------------------------------------------------- *)
\* mergeSmallChunks has returned: chunks is its argument, mergedChunks its
\* result
MergeReturned == pc = "enrich"

Short(chunk) == Len(chunk.pageContent) < MIN_CHUNK_SIZE

Contents(cs) == [i \in 1..Len(cs) |-> cs[i].pageContent]
SourcesOf(cs) == [i \in 1..Len(cs) |-> cs[i].metadata.source]

\* the "\n\n"-join of the contents of ins[i..j]
JoinedRun(ins, i, j) == JoinWith(SubSeq(Contents(ins), i, j), MergeSeparator)

\* ways to cut 1..n into K consecutive non-empty blocks, given by the last
\* index of each block
Blockings(K, n) ==
    {ends \in [1..K -> 1..n] :
        /\ \A k \in 1..(K - 1) : ends[k] < ends[k + 1]
        /\ (IF K = 0 THEN n = 0 ELSE ends[K] = n)}

BlockStart(ends, k) == IF k = 1 THEN 1 ELSE ends[k - 1] + 1

\* the blockings under which every output chunk is the join of its block
Covering(outs, ins) ==
    {ends \in Blockings(Len(outs), Len(ins)) :
        \A k \in 1..Len(outs) :
            outs[k].pageContent = JoinedRun(ins, BlockStart(ends, k), ends[k])}

\* the output chunk that holds input chunk i
BlockOf(ends, i) ==
    CHOOSE k \in 1..Len(ends) : BlockStart(ends, k) <= i /\ i <= ends[k]

RECURSIVE StripInserted(_, _)
\* content with the separator after each of its first Len(lens) - 1 pieces
\* removed; lens are the lengths of the pieces
StripInserted(content, lens) ==
    IF Len(lens) <= 1 THEN content
    ELSE SubSeq(content, 1, lens[1])
         \o StripInserted(SubSeq(content, lens[1] + Len(MergeSeparator) + 1,
                                 Len(content)),
                          Tail(lens))

RECURSIVE Collapse(_)
\* a sequence with adjacent repeats collapsed
Collapse(xs) ==
    IF Len(xs) <= 1 THEN xs
    ELSE IF xs[1] = xs[2] THEN Collapse(Tail(xs))
    ELSE <<xs[1]>> \o Collapse(Tail(xs))

(* ---------------------------------------------------------------------- *)
(* C1..C3                                                                  *)
(* ---------------------------------------------------------------------- *)
\* C1: every output chunk of mergeSmallChunks is the "\n\n"-join of a
\* contiguous run of input chunks that all have the source of the output
\* chunk: no merge crosses a source boundary.
C1_NeverMergesAcrossSources ==
    MergeReturned =>
        \A k \in 1..Len(mergedChunks) :
            \E i \in 1..Len(chunks) : \E j \in i..Len(chunks) :
                /\ mergedChunks[k].pageContent = JoinedRun(chunks, i, j)
                /\ \A m \in i..j :
                       chunks[m].metadata.source
                           = mergedChunks[k].metadata.source

\* a merge has happened right before a chunk of another source
C1_Witness ==
    /\ MergeReturned
    /\ Len(mergedChunks) < Len(chunks)
    /\ \E k \in 1..(Len(mergedChunks) - 1) :
           /\ Len(mergedChunks[k].pageContent) > 2 * 40
           /\ mergedChunks[k].metadata.source
                  # mergedChunks[k + 1].metadata.source

\* C2: the output of mergeSmallChunks has no two adjacent chunks that are
\* of the same source and both shorter than MIN_CHUNK_SIZE (a short chunk
\* that ends its source stands alone, it is never half of such a pair).
C2_NoAdjacentShortPair ==
    MergeReturned =>
        \A k \in 1..(Len(mergedChunks) - 1) :
            ~ /\ mergedChunks[k].metadata.source
                     = mergedChunks[k + 1].metadata.source
              /\ Short(mergedChunks[k])
              /\ Short(mergedChunks[k + 1])

\* two adjacent same-source output chunks, the second a short trailing one
C2_Witness ==
    /\ MergeReturned
    /\ \E k \in 1..(Len(mergedChunks) - 1) :
           /\ mergedChunks[k].metadata.source
                  = mergedChunks[k + 1].metadata.source
           /\ Short(mergedChunks[k + 1])
           /\ k + 1 = Len(mergedChunks)
           /\ Len(mergedChunks) < Len(chunks)

\* C3: mergeSmallChunks drops no content: the output chunks are the joins
\* of consecutive blocks that cover the input, and with the inserted
\* separators removed their concatenation is the concatenation of the input
\* contents in the original order.
C3_NoContentDropped ==
    MergeReturned =>
        /\ Covering(mergedChunks, chunks) # {}
        /\ \A ends \in Covering(mergedChunks, chunks) :
               Concat([k \in 1..Len(mergedChunks) |->
                   StripInserted(mergedChunks[k].pageContent,
                       [m \in 1..(ends[k] - BlockStart(ends, k) + 1) |->
                           Len(chunks[BlockStart(ends, k) + m - 1].pageContent)])])
               = Concat(Contents(chunks))

\* a run in which chunks were merged and a short chunk was left pending at
\* the end of the loop
C3_Witness ==
    /\ MergeReturned
    /\ acc.pending # <<>>
    /\ Len(mergedChunks) < Len(chunks)
    /\ Len(mergedChunks) >= 2

(* ---------------------------------------------------------------------- *)
(* C4                                                                      *)
(* ---------------------------------------------------------------------- *)
\* ins[i..j] is a maximal run of consecutive short chunks of one source
MaximalShortRun(ins, i, j) ==
    /\ i <= j
    /\ \A m \in i..j :
           Short(ins[m]) /\ ins[m].metadata.source = ins[i].metadata.source
    /\ \/ i = 1
       \/ ~(Short(ins[i - 1])
            /\ ins[i - 1].metadata.source = ins[i].metadata.source)
    /\ \/ j = Len(ins)
       \/ ~(Short(ins[j + 1])
            /\ ins[j + 1].metadata.source = ins[i].metadata.source)

\* all of ins[i..j] lie in one output chunk
FoldedIntoOne(ends, i, j) == \A m \in i..j : BlockOf(ends, m) = BlockOf(ends, i)

\* C4 as stated: every run of 3 or more consecutive same-source chunks that
\* are each shorter than MIN_CHUNK_SIZE is folded into one output chunk.
C4_Original ==
    MergeReturned =>
        /\ Covering(mergedChunks, chunks) # {}
        /\ \A ends \in Covering(mergedChunks, chunks) :
               \A i \in 1..Len(chunks) : \A j \in i..Len(chunks) :
                   (MaximalShortRun(chunks, i, j) /\ j - i + 1 >= 3)
                       => FoldedIntoOne(ends, i, j)

\* C4 amended: a maximal run of 3 or more consecutive same-source chunks
\* that are each shorter than MIN_CHUNK_SIZE is folded into one output chunk
\* if the run without its last chunk, joined with the separators, is still
\* shorter than MIN_CHUNK_SIZE.
C4_RunFoldsWhileCombinedShort ==
    MergeReturned =>
        /\ Covering(mergedChunks, chunks) # {}
        /\ \A ends \in Covering(mergedChunks, chunks) :
               \A i \in 1..Len(chunks) : \A j \in i..Len(chunks) :
                   (/\ MaximalShortRun(chunks, i, j)
                    /\ j - i + 1 >= 3
                    /\ Len(JoinedRun(chunks, i, j - 1)) < MIN_CHUNK_SIZE)
                       => FoldedIntoOne(ends, i, j)

\* three short chunks of one source have been folded into a single chunk
C4_Witness ==
    /\ MergeReturned
    /\ \E i \in 1..Len(chunks) : \E j \in i..Len(chunks) :
           /\ MaximalShortRun(chunks, i, j)
           /\ j - i + 1 >= 3
           /\ Len(JoinedRun(chunks, i, j - 1)) < MIN_CHUNK_SIZE
           /\ \E k \in 1..Len(mergedChunks) :
                  mergedChunks[k].pageContent = JoinedRun(chunks, i, j)

(* ---------------------------------------------------------------------- *)
(* C5..C8: main, createVectorIndex and the documents table                 *)
(* ---------------------------------------------------------------------- *)
Performed(op, ok) ==
    \E n \in 1..Len(storeCalls) : storeCalls[n] = [op |-> op, ok |-> ok]

\* C5: when the enriched chunk sequence is empty, main performs neither the
\* delete nor the insert, and the run ends with exit code 1.
C5_EmptyResultAborts ==
    /\ pc \in {"clear", "insert"} => Len(enrichedChunks) > 0
    /\ Len(enrichedChunks) = 0 => storeCalls = <<>>
    /\ (pc = "exited" /\ Len(enrichedChunks) = 0) => exitCode = 1
    /\ error = "empty" => (Len(enrichedChunks) = 0 /\ pc \in {"catch", "exited"})

\* an empty corpus was run against a populated table: the guard threw, the
\* old row is still there and the exit code is 1
C5_Witness ==
    /\ pc = "exited"
    /\ error = "empty"
    /\ exitCode = 1
    /\ storeCalls = <<>>
    /\ table = {OldRow}

\* C6 as stated: in every run in which the delete is performed, the insert
\* of the replacement chunks later succeeds.
C6_ClearFollowedByWrite ==
    (pc = "exited" /\ Performed("delete", TRUE)) => Performed("insert", TRUE)

\* a stored row without its id (the record of the index)
RecordOf(row) ==
    [content |-> row.content, metadata |-> row.metadata,
     content_hash |-> row.content_hash]

\* the chunks the pipeline hands to createVectorIndex for a corpus
PipelineOutput(c) == enrichChunksWithMetadata(mergeSmallChunks(c))

C8_ChunksCarryContentHash ==
    /\ pc \in {"clear", "insert"} =>
           \A k \in 1..Len(enrichedChunks) :
               "contentHash" \in DOMAIN enrichedChunks[k].metadata
    /\ (pc = "exited" /\ exitCode = 0) =>
           \A r \in table : r.content_hash # NullHash

(* ---------------------------------------------------------------------- *)
(* C9, C10                                                                 *)
(* ---------------------------------------------------------------------- *)
\* input chunk i is an output chunk by itself
Standalone(ends, i) ==
    BlockStart(ends, BlockOf(ends, i)) = i /\ ends[BlockOf(ends, i)] = i

\* C9 as stated: a short input chunk with a same-source chunk immediately
\* before or after it never appears as a standalone output chunk.
C9_Original ==
    MergeReturned =>
        /\ Covering(mergedChunks, chunks) # {}
        /\ \A ends \in Covering(mergedChunks, chunks) :
               \A i \in 1..Len(chunks) :
                   (/\ Short(chunks[i])
                    /\ \/ /\ i > 1
                          /\ chunks[i - 1].metadata.source
                                 = chunks[i].metadata.source
                       \/ /\ i < Len(chunks)
                          /\ chunks[i + 1].metadata.source
                                 = chunks[i].metadata.source)
                       => ~Standalone(ends, i)

\* C9 amended: a short input chunk that is immediately followed by a chunk
\* of the same source never appears as a standalone output chunk.
C9_ShortBeforeSameSourceIsMerged ==
    MergeReturned =>
        /\ Covering(mergedChunks, chunks) # {}
        /\ \A ends \in Covering(mergedChunks, chunks) :
               \A i \in 1..(Len(chunks) - 1) :
                   (/\ Short(chunks[i])
                    /\ chunks[i + 1].metadata.source
                           = chunks[i].metadata.source)
                       => ~Standalone(ends, i)

\* a short chunk that follows a chunk of another source was merged into the
\* chunk after it
C9_Witness ==
    /\ MergeReturned
    /\ \E i \in 2..(Len(chunks) - 1) :
           /\ Short(chunks[i])
           /\ chunks[i - 1].metadata.source # chunks[i].metadata.source
           /\ chunks[i + 1].metadata.source = chunks[i].metadata.source
           /\ \E k \in 1..Len(mergedChunks) :
                  mergedChunks[k].pageContent = JoinedRun(chunks, i, i + 1)

\* C10: mergeSmallChunks keeps order and source grouping: the output chunks
\* are consecutive blocks of the input in input order, and the sources of
\* the output, adjacent repeats collapsed, are those of the input.
C10_OrderAndGroupingPreserved ==
    MergeReturned =>
        /\ Covering(mergedChunks, chunks) # {}
        /\ Collapse(SourcesOf(mergedChunks)) = Collapse(SourcesOf(chunks))

\* chunks of two sources went in, a merge happened, and a short chunk of
\* the first source was flushed ahead of the second source
C10_Witness ==
    /\ MergeReturned
    /\ Len(Collapse(SourcesOf(chunks))) = 2
    /\ Len(mergedChunks) < Len(chunks)
    /\ Short(mergedChunks[1])

(* ---------------------------------------------------------------------- *)
(* C11..C13                                                                *)
(* ---------------------------------------------------------------------- *)
RECURSIVE TotalLength(_)
\* the total number of characters of the contents of cs
TotalLength(cs) ==
    IF Len(cs) = 0 THEN 0 ELSE Len(cs[1].pageContent) + TotalLength(Tail(cs))

\* C11: the characters of the output of mergeSmallChunks are those of the
\* input plus one 2-character separator per merge:
\* sum(len(out)) = sum(len(in)) + 2 * (number of inputs - number of outputs).
C11_LengthAccounting ==
    MergeReturned =>
        TotalLength(mergedChunks)
            = TotalLength(chunks) + 2 * (Len(chunks) - Len(mergedChunks))

\* one merge has happened in a run that also kept a chunk as it was
C11_Witness ==
    /\ MergeReturned
    /\ Len(chunks) - Len(mergedChunks) = 1
    /\ Len(mergedChunks) = 2
    /\ TotalLength(mergedChunks) = TotalLength(chunks) + 2

\* the input is three chunks of one source with lengths 40, 40 and 200
Is40_40_200(cs) ==
    /\ Len(cs) = 3
    /\ Len(cs[1].pageContent) = 40
    /\ Len(cs[2].pageContent) = 40
    /\ Len(cs[3].pageContent) = 200
    /\ cs[2].metadata.source = cs[1].metadata.source
    /\ cs[3].metadata.source = cs[1].metadata.source

\* C12: for three fragments of one source with lengths 40, 40 and 200 the
\* first two are folded into a pending chunk of 82 characters, and because
\* 82 < MIN_CHUNK_SIZE it is merged into the third: the output is exactly
\* one chunk of 284 characters.
C12_FortyFortyTwoHundred ==
    Is40_40_200(chunks) =>
        /\ (pc = "merge" /\ idx = 2) =>
               /\ acc.merged = <<>>
               /\ Len(acc.pending) = 1
               /\ Len(acc.pending[1].pageContent) = 82
        /\ MergeReturned =>
               /\ Len(mergedChunks) = 1
               /\ Len(mergedChunks[1].pageContent) = 284

\* the merge of 40, 40, 200 has returned
C12_Witness ==
    /\ MergeReturned
    /\ Is40_40_200(chunks)
    /\ Len(mergedChunks) = 1

\* C13: when a stage of the run fails, no later stage is executed, the
\* failed operation is not retried and the run exits with code 1; a load
\* failure comes before any delete or write.
C13_FailureStopsTheRun ==
    /\ error # "none" => pc \in {"catch", "exited"}
    /\ (pc = "exited" /\ error # "none") => exitCode = 1
    /\ \A n \in 1..Len(storeCalls) :
           ~storeCalls[n].ok => (n = Len(storeCalls) /\ error # "none")
    /\ error \in {"load", "split"} =>
           /\ storeCalls = <<>>
           /\ mergedChunks = <<>>
           /\ enrichedChunks = <<>>
    /\ error = "load" => chunks = <<>>
    /\ error = "clear" => storeCalls = <<[op |-> "delete", ok |-> FALSE]>>
    /\ error = "insert" =>
           storeCalls = <<[op |-> "delete", ok |-> TRUE],
                          [op |-> "insert", ok |-> FALSE]>>

\* the delete of a run against a populated table failed: the run has exited
\* with code 1, nothing was inserted and the old row is still there
C13_Witness ==
    /\ pc = "exited"
    /\ error = "clear"
    /\ exitCode = 1
    /\ table = {OldRow}
    /\ Len(enrichedChunks) > 0

(* ---------------------------------------------------------------------- *)
(* C16..C19                                                                *)
(* ---------------------------------------------------------------------- *)
ThiefTitle == <<"T", "h", "i", "e", "f", " ", "C", "l", "a", "s", "s">>
InitiativeTitle ==
    <<"C", "o", "m", "b", "a", "t", " ", ">", " ", "I", "n", "i", "t", "i", "a", "t", "i", "v", "e">>

\* the content enrichChunksWithMetadata is to give a chunk: "[title]\n"
\* followed by the content of the chunk
TitledContent(chunk) ==
    <<"[">> \o extractTitleFromPath(chunk.metadata.source) \o <<"]", "\n">>
    \o chunk.pageContent

C17_MergedKeepsFirstMetadata ==
    MergeReturned =>
        /\ Covering(mergedChunks, chunks) # {}
        /\ \A ends \in Covering(mergedChunks, chunks) :
               \A k \in 1..Len(mergedChunks) :
                   mergedChunks[k].metadata
                       = chunks[BlockStart(ends, k)].metadata

\* a chunk made of three input chunks has the loc of the first of them
C17_Witness ==
    /\ MergeReturned
    /\ \E k \in 1..Len(mergedChunks) : \E i \in 1..(Len(chunks) - 2) :
           /\ mergedChunks[k].pageContent = JoinedRun(chunks, i, i + 2)
           /\ mergedChunks[k].metadata.loc = i

\* C18: a pending chunk is emitted as it is, without being merged with a
\* later chunk, exactly when the next input chunk has another source or
\* there is no next chunk; it is never dropped: when the next chunk has the
\* same source, the pending content continues in the combined chunk.
C18_PendingFlushedOnlyAtBoundary ==
    [][(pc = "merge" /\ acc.pending # <<>>) =>
        IF idx < Len(chunks)
        THEN LET p == acc.pending[1]
                 cur == chunks[idx + 1]
                 emitted == /\ Len(acc'.merged) > Len(acc.merged)
                            /\ acc'.merged[Len(acc.merged) + 1] = p
                 carried == IF acc'.pending # <<>>
                            THEN acc'.pending[1]
                            ELSE acc'.merged[Len(acc'.merged)]
             IN  /\ SubSeq(acc'.merged, 1, Len(acc.merged)) = acc.merged
                 /\ emitted <=> (cur.metadata.source # p.metadata.source)
                 /\ (cur.metadata.source = p.metadata.source) =>
                        carried.pageContent
                            = p.pageContent \o MergeSeparator \o cur.pageContent
        ELSE mergedChunks' = Append(acc.merged, acc.pending[1])]_vars

\* a short chunk was flushed on a change of source and another short chunk
\* is pending
C18_Witness ==
    /\ pc = "merge"
    /\ acc.pending # <<>>
    /\ Len(acc.merged) >= 1
    /\ Short(acc.merged[Len(acc.merged)])
    /\ acc.merged[Len(acc.merged)].metadata.source
           # acc.pending[1].metadata.source

\* C19: the size test is strict: after a chunk of exactly MIN_CHUNK_SIZE
\* characters has been consumed nothing is pending, and when every input
\* chunk has MIN_CHUNK_SIZE characters or more the output is the input.
C19_StrictSizeTest ==
    /\ (/\ pc = "merge"
        /\ idx >= 1
        /\ Len(chunks[idx].pageContent) = MIN_CHUNK_SIZE) => acc.pending = <<>>
    /\ (/\ MergeReturned
        /\ \A i \in 1..Len(chunks) :
               Len(chunks[i].pageContent) >= MIN_CHUNK_SIZE)
           => mergedChunks = chunks

\* three chunks, none short and one of exactly MIN_CHUNK_SIZE characters at
\* the start of a source, came out as they went in
C19_Witness ==
    /\ MergeReturned
    /\ Len(chunks) = 3
    /\ \A i \in 1..Len(chunks) : Len(chunks[i].pageContent) >= MIN_CHUNK_SIZE
    /\ Len(chunks[1].pageContent) = MIN_CHUNK_SIZE
    /\ chunks[2].metadata.source = chunks[1].metadata.source
    /\ mergedChunks = chunks

(* ---------------------------------------------------------------------- *)
(* Titles (specification SpecTitle)                                        *)
(* ---------------------------------------------------------------------- *)
TitleReturned == tpc = "returned"

FinalSegment == segments[Len(segments)]

ClassCaseApplies ==
    /\ \E i \in 1..Len(segments) : segments[i] = <<"C", "l", "a", "s", "s", "e", "s">>
    /\ Len(segments) >= 2
    /\ FinalSegment # <<"C", "h", "a", "r", "a", "c", "t", "e", "r", " ", "C", "l", "a", "s", "s", "e", "s">>

CharacterClassesPath == <<"v", "a", "u", "l", "t", "/", "C", "l", "a", "s", "s", "e", "s", "/", "C", "h", "a", "r", "a", "c", "t", "e", "r", " ", "C", "l", "a", "s", "s", "e", "s", ".", "m", "d">>

WithoutRules ==
    SelectSeq(segments, LAMBDA segment : segment # <<"r", "u", "l", "e", "s">>)

Breadcrumb(names) ==
    IF names = <<>> THEN <<>>
    ELSE LET RECURSIVE from(_)
             from(i) == IF i = Len(names) THEN names[i]
                        ELSE names[i] \o <<" ", ">", " ">> \o from(i + 1)
         IN  from(1)

C15_BreadcrumbWithoutRules ==
    (TitleReturned /\ ~ClassCaseApplies) =>
        /\ title = Breadcrumb(WithoutRules)
        /\ filepath = InitiativePath => title = InitiativeTitle

C15_Witness ==
    /\ TitleReturned
    /\ ~ClassCaseApplies
    /\ filepath = InitiativePath
    /\ Len(WithoutRules) < Len(segments)
    /\ title = InitiativeTitle

SegmentsComputed == tpc \in {"title", "returned"}

\* the segments of the sample when a prefix counts only if whitespace
\* follows its "." or "-"
SpacedPrefixNames ==
    SubSeq(sample.names, 1, Len(sample.names) - 1)
        \o <<IF sample.prefix.spaced THEN sample.names[Len(sample.names)]
                                     ELSE sample.raw>>

\* C20 as stated: a prefix of digits, an optional lowercase letter and "."
\* or "-" is stripped when whitespace follows it, and a segment without
\* such a prefix stays as it is.
C20_Original ==
    SegmentsComputed => segments = SpacedPrefixNames

\* C20: a leading prefix of digits, an optional single lowercase letter and
\* "." or "-" is stripped from each segment together with any whitespace
\* after it, whitespace or not; every other segment stays as it is.
C20_OrderingPrefixStripped ==
    SegmentsComputed => segments = sample.names

C20_Witness ==
    /\ SegmentsComputed
    /\ sample.prefix.text = <<"0", "2", "a", ".", " ">>
    /\ sample.raw = <<"0", "2", "a", ".", " ", "T", "h", "i", "e", "f">>
    /\ Len(segments) = 2
    /\ segments[1] = <<"C", "l", "a", "s", "s", "e", "s">>
    /\ segments[2] = <<"T", "h", "i", "e", "f">>
    /\ filepath = <<"v", "a", "u", "l", "t", "/", "1", ".", " ", "C", "l", "a", "s", "s", "e", "s", "/", "0", "2", "a", ".", " ", "T", "h", "i", "e", "f", ".", "m", "d">>

RelativePathComputed == tpc # "call"

\* C21: the path is cut after its last directory called "vault", and a path
\* without a directory called "vault" is used whole.
C21_RootMarkerSegmentStripped ==
    RelativePathComputed =>
        relativePath = sample.root.beyond \o sample.inner

(* ---------------------------------------------------------------------- *)
(* C25..C27 (specification Spec)                                           *)
(* ---------------------------------------------------------------------- *)
Folding == pc = "merge"

SourceOf(chunk) == chunk.metadata.source

\* C25: during the fold the pending chunk is null or shorter than
\* MIN_CHUNK_SIZE, and a chunk of the merged list that is shorter than
\* MIN_CHUNK_SIZE is directly followed by a chunk of another source: by the
\* next chunk of the merged list or the pending chunk while folding, and by
\* the next chunk of the output once mergeSmallChunks has returned.
C25_PendingShortAndShortEmittedAtBoundary ==
    /\ Folding =>
           /\ acc.pending = <<>> \/ Short(acc.pending[1])
           /\ \A k \in 1..Len(acc.merged) :
                  Short(acc.merged[k]) =>
                      IF k < Len(acc.merged)
                      THEN SourceOf(acc.merged[k + 1]) # SourceOf(acc.merged[k])
                      ELSE /\ acc.pending # <<>>
                           /\ SourceOf(acc.pending[1]) # SourceOf(acc.merged[k])
    /\ MergeReturned =>
           \A k \in 1..Len(acc.merged) :
               Short(acc.merged[k]) =>
                   /\ k < Len(mergedChunks)
                   /\ mergedChunks[k] = acc.merged[k]
                   /\ SourceOf(mergedChunks[k + 1]) # SourceOf(mergedChunks[k])

\* a short chunk was flushed to the merged list and another short chunk is
\* pending
C25_Witness ==
    /\ Folding
    /\ Len(acc.merged) >= 1
    /\ Short(acc.merged[Len(acc.merged)])
    /\ acc.pending # <<>>
    /\ Short(acc.pending[1])
    /\ SourceOf(acc.pending[1]) # SourceOf(acc.merged[Len(acc.merged)])

LargestInput ==
    CHOOSE l \in {Len(chunks[i].pageContent) : i \in 1..Len(chunks)} :
        \A i \in 1..Len(chunks) : Len(chunks[i].pageContent) <= l

\* C26: every output chunk of mergeSmallChunks is at most
\* (MIN_CHUNK_SIZE - 1) + 2 + L long, L being the largest input length.
C26_OutputLengthBounded ==
    (MergeReturned /\ chunks # <<>>) =>
        \A k \in 1..Len(mergedChunks) :
            Len(mergedChunks[k].pageContent)
                <= (MIN_CHUNK_SIZE - 1) + Len(MergeSeparator) + LargestInput

\* a run of three chunks was merged into a chunk longer than every input
C26_Witness ==
    /\ MergeReturned
    /\ Len(chunks) = 3
    /\ Len(mergedChunks) = 1
    /\ Len(mergedChunks[1].pageContent) > LargestInput + Len(MergeSeparator)
    /\ Len(mergedChunks[1].pageContent)
           <= (MIN_CHUNK_SIZE - 1) + Len(MergeSeparator) + LargestInput

MergeWasRun ==
    \/ pc \in {"enrich", "guard", "clear", "insert"}
    \/ error \in {"empty", "clear", "insert"}
    \/ exitCode = 0

EnrichWasRun ==
    \/ pc \in {"guard", "clear", "insert"}
    \/ error \in {"empty", "clear", "insert"}
    \/ exitCode = 0

GuardWasPassed ==
    \/ pc \in {"clear", "insert"}
    \/ error \in {"clear", "insert"}
    \/ exitCode = 0

GuardFired == error = "empty"

CountKept(outs, ins) ==
    IF ins = <<>> THEN outs = <<>>
    ELSE 0 < Len(outs) /\ Len(outs) <= Len(ins)

\* C27: mergeSmallChunks and enrichChunksWithMetadata return an empty list
\* for an empty list and between 1 and as many chunks as they were given
\* otherwise, so the guard of main throws exactly in the runs in which the
\* splitter returned no chunk.
C27_GuardFiresExactlyOnEmptySplit ==
    /\ MergeWasRun => CountKept(mergedChunks, chunks)
    /\ EnrichWasRun => CountKept(enrichedChunks, mergedChunks)
    /\ GuardFired => chunks = <<>>
    /\ GuardWasPassed => chunks # <<>>

\* the guard has thrown in a run whose split gave no chunk
C27_Witness ==
    /\ GuardFired
    /\ pc = "catch"
    /\ corpus = <<>>
    /\ chunks = <<>>
    /\ mergedChunks = <<>>
    /\ enrichedChunks = <<>>

(* ---------------------------------------------------------------------- *)
(* C22, C30 (specification SpecVariants)                                   *)
(* ---------------------------------------------------------------------- *)
BothReturned == pc = "enrich" /\ lookaheadPc = "returned"

SameOutput == mergedChunks = lookaheadMerged

\* chunks i, i+1, i+2 are of one source and each shorter than MIN_CHUNK_SIZE
ShortTriple(i) ==
    /\ i + 2 <= Len(chunks)
    /\ \A m \in i..(i + 2) :
           Short(chunks[m]) /\ SourceOf(chunks[m]) = SourceOf(chunks[i])

\* the single-lookahead merge made one chunk of chunks i and i+1
LookaheadPaired(i) ==
    /\ Covering(lookaheadMerged, chunks) # {}
    /\ LET ends == CHOOSE e \in Covering(lookaheadMerged, chunks) : TRUE
       IN  \E k \in 1..Len(lookaheadMerged) :
               BlockStart(ends, k) = i /\ ends[k] = i + 1

ShortPairBeforeSameSource ==
    /\ Covering(lookaheadMerged, chunks) # {}
    /\ LET ends == CHOOSE e \in Covering(lookaheadMerged, chunks) : TRUE
       IN  \E k \in 1..(Len(lookaheadMerged) - 1) :
               /\ ends[k] > BlockStart(ends, k)
               /\ Short(lookaheadMerged[k])
               /\ SourceOf(lookaheadMerged[k + 1]) = SourceOf(lookaheadMerged[k])

\* the iterative merge went on merging into a chunk already made of two
\* (still short, or it would have been emitted) : a chunk made of 3 or more
MergedOnIntoShortPair ==
    /\ Covering(mergedChunks, chunks) # {}
    /\ LET ends == CHOOSE e \in Covering(mergedChunks, chunks) : TRUE
       IN  \E k \in 1..Len(mergedChunks) : ends[k] > BlockStart(ends, k) + 1

\* C30: the two merges return the same list on every input on which no
\* merged chunk still shorter than MIN_CHUNK_SIZE is directly followed by a
\* chunk of its source (in the single-lookahead merge: such a pair in its
\* output; in the iterative merge: a pending pair that is merged on).
C30_VariantsAgreeOtherwise ==
    BothReturned =>
        /\ ~ShortPairBeforeSameSource => SameOutput
        /\ ~MergedOnIntoShortPair => SameOutput

\* 40, 58, 40 of one source: both give chunks of 100 and 40
C30_Witness ==
    /\ BothReturned
    /\ Len(chunks) = 3
    /\ ShortTriple(1)
    /\ ~ShortPairBeforeSameSource
    /\ ~MergedOnIntoShortPair
    /\ SameOutput
    /\ Len(mergedChunks) = 2
    /\ Len(mergedChunks[1].pageContent) = MIN_CHUNK_SIZE

(* ---------------------------------------------------------------------- *)
(* C28 (specification SpecOverlap)                                         *)
(* ---------------------------------------------------------------------- *)
BothDone == \A r \in Runners : runnerPc[r] = "done"

\* both deletes were performed before the first insert
DeletesBeforeInserts ==
    /\ Len(runnerCalls) = 4
    /\ runnerCalls[1].op = "delete"
    /\ runnerCalls[2].op = "delete"

\* number of stored rows that hold the chunk
Copies(chunk) ==
    Cardinality({row \in table : RecordOf(row) = RecordOf(RowOf(chunk, 0))})

\* C28: when both runs delete before either inserts, the table ends up with
\* every chunk twice; when one run finishes before the other starts it ends
\* up with every chunk once.
C28_OverlappingRunsDuplicate ==
    BothDone =>
        /\ DeletesBeforeInserts =>
               /\ \A k \in 1..Len(enrichedChunks) : Copies(enrichedChunks[k]) = 2
               /\ Cardinality(table) = 2 * Len(enrichedChunks)
        /\ ~DeletesBeforeInserts =>
               /\ \A k \in 1..Len(enrichedChunks) : Copies(enrichedChunks[k]) = 1
               /\ Cardinality(table) = Len(enrichedChunks)

\* both runs are over, the deletes came first, and the old row is gone
\* while each of two chunks is stored twice
C28_Witness ==
    /\ BothDone
    /\ DeletesBeforeInserts
    /\ runnerCalls[1].runner # runnerCalls[2].runner
    /\ Len(enrichedChunks) = 2
    /\ Cardinality(table) = 4
    /\ OldRow \notin table
    /\ Copies(enrichedChunks[1]) = 2

(* ---------------------------------------------------------------------- *)
(* C23, C24, C29 (specifications SpecChat and SpecChatLive)                *)
(* ---------------------------------------------------------------------- *)
LastCall == submitCalls'[Len(submitCalls')]

OnSubmitCalled == submitCalls' # submitCalls

C23_Step ==
    /\ OnSubmitCalled =>
           /\ submitCalls' = Append(submitCalls, LastCall)
           /\ LastCall.text = Trim(value)
           /\ LastCall.text # <<>>
           /\ status = "ready"
           /\ LastCall.isDisabled = FALSE
           /\ lastEvent' \in {"enter", "click"}
           /\ value' = <<>>
    /\ lastEvent' = "shiftEnter" => ~OnSubmitCalled

\* C23: onSubmit is called only with the trimmed text of the input, which is
\* not empty, only while the input is not disabled, and only on Enter
\* without Shift or a click of the send button; Shift+Enter never calls it;
\* after a call the text of the input is empty.
C23_SubmitOnlyTrimmedNonEmptyEnabled == [][C23_Step]_vars

\* " hi " or "hi" was sent with Enter as "hi" and the input is empty again
C23_Witness ==
    /\ page # "off"
    /\ lastEvent = "enter"
    /\ submitCalls = <<[text |-> <<"h", "i">>, isDisabled |-> FALSE]>>
    /\ value = <<>>
    /\ messages[Len(messages)] = UserMessage(<<"h", "i">>)

Cursors == {i \in 1..Len(messages) : isStreaming(i)}

Role(i) == messages[i].role

C29_Inv ==
    /\ page # "off" => inFlight \in {0, 1}
    /\ page # "off" => (inFlight = 1 <=> status \in {"submitted", "streaming"})
    /\ page = "stub" =>
           \A i \in 2..(Len(messages) - 1) :
               /\ Role(i) = "user" => Role(i + 1) = "assistant"
               /\ Role(i) = "assistant" => Role(i + 1) = "user"

C29_Step ==
    /\ OnSubmitCalled =>
           /\ status = "ready"
           /\ inFlight = 0
           /\ messages' = Append(messages, UserMessage(LastCall.text))
    /\ status # "ready" =>
           /\ ~OnSubmitCalled
           /\ Len(SelectSeq(messages', LAMBDA msg : msg.role = "user"))
                  = UserTurns

\* C29: a user message is submitted only while the status is "ready"; in
\* every other status no handleSend happens, so at most one request is in
\* flight, and in the stub page every user message is followed by exactly
\* one assistant reply before the next user message.
C29_OneRequestAtATime ==
    /\ []C29_Inv
    /\ [][C29_Step]_vars
    /\ (page = "stub" /\ Role(Len(messages)) = "user")
           ~> (page = "stub" /\ Role(Len(messages)) = "assistant"
               /\ status = "ready")

\* the stub page after two questions, each with its reply
C29_Witness ==
    /\ page = "stub"
    /\ status = "ready"
    /\ inFlight = 0
    /\ Len(messages) = 5
    /\ Role(2) = "user" /\ Role(3) = "assistant"
    /\ Role(4) = "user" /\ Role(5) = "assistant"

====
